---- MODULE Spec2Model ----
(***************************************************************************)
(* Model of BitMexPlus (src/index.mjs): the rate limiter (init, throttle,  *)
(* setRateLimit), the request pipeline (makeRequest) and the incremental   *)
(* stream dispatcher (monitorStream).                                      *)
(*                                                                         *)
(* Numbers.  rateLimit.remaining is fractional: the refill adds limit/60.  *)
(* Every finite number of the model is an integer count of 1/60 units, so  *)
(* that limit/60 is exact (limit is always an integer, see setRateLimit).  *)
(* The model computes with exact rationals; the rounding of IEEE doubles   *)
(* is not modelled.  NaN is modelled: it is a value setRateLimit can store.*)
(*                                                                         *)
(* Time.  One Elapse step is one 250 ms window (the delay of throttle's    *)
(* setTimeout).  Every callback whose timer expired in a window runs in    *)
(* that window, in any order; the refill interval expires every 4th window.*)
(***************************************************************************)
EXTENDS Integers, Sequences, FiniteSets

\* ------------------------------------------------------------- constants
\* rateLimit.remaining + rateLimit.limit / 60: the divisor, and the model's unit
RefillDivisor == 60
Unit == RefillDivisor

\* let retries = 400
Retries == 400
\* setTimeout(..., 250) and setInterval(..., 1000), in milliseconds
PollDelay == 250
RefillInterval == 1000
WindowsPerRefill == RefillInterval \div PollDelay

\* rateLimit = { limit: 30, remaining: 0, reset: 0 }
InitialLimit == 30
\* this.rateLimit.remaining = 1 (init)
PrimedRemaining == 1
\* value = key === 'limit' ? 30 : 10
DefaultLimit == 30
DefaultOther == 10
\* makeRequest(verb, endpoint, data = {}, limit = 10), and init's limit of -1
DefaultFloor == 10
BootstrapFloor == -1

\* ---------------------------------------------------------------- bounds
\* user requests made besides the bootstrap request (request 0)
MaxRequests == 1
\* user requests are started within the first MaxCallWindows windows
MaxCallWindows == 1
\* an HTTP call is answered (or fails) within MaxLatency windows, the one it
\* is issued in included
MaxLatency == 1

\* ------------------------------------------------------------ JS numbers
\* A number held in rateLimit: finite (v counts 1/60 units) or NaN.
Num(v) == [nan |-> FALSE, v |-> v]
NaN == [nan |-> TRUE, v |-> 0]

\* x > y of JavaScript: false when either side is NaN
Gt(x, y) == ~x.nan /\ ~y.nan /\ x.v > y.v
\* x-- / x + y: NaN stays NaN
Dec(x) == IF x.nan THEN NaN ELSE Num(x.v - Unit)
Add(x, y) == IF x.nan \/ y.nan THEN NaN ELSE Num(x.v + y.v)
\* x / 60
Div60(x) == IF x.nan THEN NaN ELSE Num(x.v \div RefillDivisor)
\* Math.min(x, y): NaN when either side is NaN
MathMin(x, y) == IF x.nan \/ y.nan THEN NaN ELSE IF x.v <= y.v THEN x ELSE y
\* x - y
Sub(x, y) == IF x.nan \/ y.nan THEN NaN ELSE Num(x.v - y.v)

\* A number as unary plus yields it from a header string:
\*   "nan"  not a number                    (+"abc")
\*   "fin"  finite, v in 1/60 units, below 1e21 (+null and +"" are 0)
\*   "exp"  finite and >= 1e21: String() writes it d.ddde+NN, v is the digit d
\*   "inf"  Infinity, "ninf"  -Infinity
HNaN == [k |-> "nan", v |-> 0]
HFin(v) == [k |-> "fin", v |-> v]
HExp(d) == [k |-> "exp", v |-> d]
HInf == [k |-> "inf", v |-> 0]
HNegInf == [k |-> "ninf", v |-> 0]
HInt(n) == HFin(n * Unit)

\* isNaN(value)
IsNaN(value) == value.k = "nan"
\* value < 1
LessThanOne(value) == (value.k = "fin" /\ value.v < Unit) \/ value.k = "ninf"

\* parseInt(value, 10) of a number: String(value), then its leading integer
\* digits. "Infinity" has none (NaN); d.ddde+NN gives d; a decimal fraction
\* is cut off (truncation toward zero).
ParseInt(value) ==
  CASE value.k = "nan" -> NaN
    [] value.k = "inf" -> NaN
    [] value.k = "ninf" -> NaN
    [] value.k = "exp" -> Num(value.v * Unit)
    [] value.k = "fin" ->
         IF value.v >= 0 THEN Num((value.v \div Unit) * Unit)
         ELSE Num(-(((-value.v) \div Unit) * Unit))

\* setRateLimit(key, value): the number stored in rateLimit[key]
Stored(key, value) ==
  IF IsNaN(value) \/ LessThanOne(value)
  THEN ParseInt(HInt(IF key = "limit" THEN DefaultLimit ELSE DefaultOther))
  ELSE ParseInt(value)

\* setRateLimit(key, value) as a state change of rateLimit rl
SetRateLimit(rl, key, value) == [rl EXCEPT ![key] = Stored(key, value)]

\* for (let key in this.rateLimit) this.setRateLimit(key, +headers.get(...)):
\* the keys in insertion order limit, remaining, reset
Reconcile(rl, hl, hr, hs) ==
  SetRateLimit(SetRateLimit(SetRateLimit(rl, "limit", hl), "remaining", hr), "reset", hs)

\* ---------------------------------------------------------------- inputs
\* request MaxRequests + 1 is made only once the bootstrap request has failed
\* (see SpecRecovery)
LateReq == MaxRequests + 1
Reqs == 0..LateReq
UserReqs == 1..MaxRequests
\* the limit argument of a user's makeRequest: the default, and the lowest
\* the bootstrap window is about (the one init passes)
Floors == {BootstrapFloor * Unit, DefaultFloor * Unit}
AllFloors == Floors \cup {BootstrapFloor * Unit}
\* the key argument of setRateLimit
Keys == {"limit", "remaining", "reset"}
\* x-ratelimit-limit / -remaining / -reset as unary plus reads them
LimitHeaders == {HNaN, HInt(5)}
RemainingHeaders == {HInt(0), HInt(11), HInf}
ResetHeaders == {HInt(0)}

\* ----------------------------------------------------------------- state
VARIABLES
  rateLimit,    \* this.rateLimit: [limit, remaining, reset]
  pc,           \* per request: where its makeRequest stands
  floor,        \* per request: the limit argument of its throttle call
  retries,      \* per request: the retries variable of its throttle call
  nfetch,       \* per request: HTTP calls issued (fetch invocations)
  age,          \* per request in flight: windows its HTTP call has spanned
  intervalOn,   \* init's setInterval has been called
  intervalLeft, \* windows until the interval's next expiry (0: callback due)
  now,          \* windows elapsed since construction, capped
  \* history of the limiter, read by the properties only
  nthrottle,    \* per request: throttle calls made for it
  failedChecks, \* per request: check() runs that did not find remaining > limit
  tickSince,    \* per waiting request: a refill ran since its throttle call
  reconSince,   \* per waiting request: a response was reconciled since its call
  avail,        \* remaining as last set by init or a response, plus the refill added since
  grants,       \* per floor: requests that got past throttle since avail was set
  doomed,       \* per request in throttle: at its call the bootstrap request had failed,
                \* no other request was under way and remaining <= its limit argument + 1
  lastKey,      \* arguments of the latest direct setRateLimit call ("" if none)
  lastValue,
  \* monitorStream: one subscription
  tableName,    \* its tableName argument ("" before monitorStream is called)
  lastItem,     \* the closure variable lastItem (Undefined at first)
  calls,        \* the callback's invocations so far, by argument
  nSnaps,       \* snapshots delivered so far
  arrivals,     \* the items of the snapshots, in order of first appearance
  prevSnap,     \* the snapshot before
  windowed,     \* every snapshot so far continued the one before as a log window
  \* direct throttle calls and refill ticks since rateLimit was last reconciled
  before,       \* remaining when the first of them ran
  nCalls,       \* throttle calls among them
  nTicks,       \* refill ticks among them
  throttled,    \* the first check of the latest direct throttle call
  \* the request makeRequest builds before it calls throttle
  built         \* the latest one ("none" in every field before the first)

limiter == <<rateLimit, pc, floor, retries, nfetch, age, intervalOn, intervalLeft, now>>
history == <<nthrottle, failedChecks, tickSince, reconSince, avail, grants, doomed>>
direct == <<lastKey, lastValue>>
stream == <<tableName, lastItem, calls, nSnaps, arrivals, prevSnap, windowed>>
segment == <<before, nCalls, nTicks, throttled>>
request == <<built>>
detached == <<segment, request>>
vars == <<limiter, history, direct, stream, detached>>

\* pc values
\*   "idle"     makeRequest not called yet
\*   "wait"     throttle: setTimeout(check, 250) armed
\*   "due"      throttle: the timer expired, check() is to run
\*   "passed"   throttle resolved; the then-callback calling fetch is queued
\*   "fetch"    HTTP call in flight
\*   "body"     response received and reconciled; response.json() pending
\*   "ok"       makeRequest resolved
\*   "noretry"  rejected: 'No more retries'
\*   "failed"   rejected: fetch or response.json() failed
\*   "apierr"   rejected: the body has an 'error' field
Rejected == {"noretry", "failed", "apierr"}
Settled == Rejected \cup {"ok"}
Waiting(r) == pc[r] \in {"wait", "due"}

\* a promise reaction (microtask) is queued: it runs before any timer or I/O callback
MicrotaskPending == \E r \in Reqs : pc[r] = "passed"

\* monitorStream's inputs
Undefined == 0
NoArgument == 0
Items == {1, 2, 3}
Tables == {"trade", "orderBookL2"}
\* snapshots: the rows of a table are pairwise different
Injective(s) == \A i, j \in DOMAIN s : i # j => s[i] # s[j]
Snapshots == {s \in UNION {[1..n -> Items] : n \in 0..Cardinality(Items)} : Injective(s)}

\* no request built yet
NoRequest == [verb |-> "none"]

Init ==
  /\ rateLimit = [limit |-> Num(InitialLimit * Unit), remaining |-> Num(0), reset |-> Num(0)]
  /\ pc = [r \in Reqs |-> "idle"]
  /\ floor = [r \in Reqs |-> 0]
  /\ retries = [r \in Reqs |-> 0]
  /\ nfetch = [r \in Reqs |-> 0]
  /\ age = [r \in Reqs |-> 0]
  /\ intervalOn = FALSE
  /\ intervalLeft = 0
  /\ now = 0
  /\ nthrottle = [r \in Reqs |-> 0]
  /\ failedChecks = [r \in Reqs |-> 0]
  /\ tickSince = [r \in Reqs |-> FALSE]
  /\ reconSince = [r \in Reqs |-> FALSE]
  /\ doomed = [r \in Reqs |-> FALSE]
  /\ avail = Num(0)
  /\ grants = [f \in AllFloors |-> 0]
  /\ lastKey = ""
  /\ lastValue = HNaN
  /\ tableName = ""
  /\ lastItem = Undefined
  /\ calls = <<>>
  /\ nSnaps = 0
  /\ arrivals = <<>>
  /\ prevSnap = <<>>
  /\ windowed = TRUE
  /\ before = Num(0)
  /\ nCalls = 0
  /\ nTicks = 0
  /\ throttled = "none"
  /\ built = NoRequest

\* ------------------------------------------------------------- throttle
\* check() rejecting one check early (if (retries <= 1) ...)
CheckPcRejectsEarly(rem, f, n) ==
  IF Gt(rem, f) THEN "passed" ELSE IF n - 1 <= 1 THEN "noretry" ELSE "wait"

\* check() comparing with >= (remaining equal to the floor passes)
CheckPcAtLeast(rem, f, n) ==
  IF ~rem.nan /\ ~f.nan /\ rem.v >= f.v THEN "passed"
  ELSE IF n - 1 = 0 THEN "noretry" ELSE "wait"

\* check() calling resolve() where it should reject
CheckPcResolvesOnExhaustion(rem, f, n) ==
  IF Gt(rem, f) THEN "passed" ELSE IF n - 1 = 0 THEN "passed" ELSE "wait"

\* check(): the state of request r after one check against remaining rem,
\* with n retries left before the check
CheckPc(rem, f, n) ==
  IF Gt(rem, f) THEN "passed" ELSE IF n - 1 = 0 THEN "noretry" ELSE "wait"
CheckRetries(rem, f, n) == IF Gt(rem, f) THEN n ELSE n - 1

\* history of one check() of request r with floor f against remaining rem
Checked(r, f, rem, g) ==
  /\ failedChecks' = [failedChecks EXCEPT ![r] = IF Gt(rem, Num(f)) THEN @ ELSE @ + 1]
  /\ grants' = IF Gt(rem, Num(f)) THEN [g EXCEPT ![f] = @ + 1] ELSE g

\* throttle running its first check before the decrement
ThrottleChecksFirst(r, f, rl) ==
  /\ rateLimit' = [rl EXCEPT !.remaining = Dec(rl.remaining)]
  /\ floor' = [floor EXCEPT ![r] = f]
  /\ pc' = [pc EXCEPT ![r] = CheckPc(rl.remaining, Num(f), Retries)]
  /\ retries' = [retries EXCEPT ![r] = CheckRetries(rl.remaining, Num(f), Retries)]
  /\ nthrottle' = [nthrottle EXCEPT ![r] = @ + 1]

\* throttle(limit): remaining--, then new Promise runs check() synchronously
Throttle(r, f, rl) ==
  /\ rateLimit' = [rl EXCEPT !.remaining = Dec(rl.remaining)]
  /\ floor' = [floor EXCEPT ![r] = f]
  /\ pc' = [pc EXCEPT ![r] = CheckPc(Dec(rl.remaining), Num(f), Retries)]
  /\ retries' = [retries EXCEPT ![r] = CheckRetries(Dec(rl.remaining), Num(f), Retries)]
  /\ nthrottle' = [nthrottle EXCEPT ![r] = @ + 1]

\* constructor -> init(): remaining = 1, then makeRequest('GET', '', {}, -1)
init ==
  /\ pc[0] = "idle"
  /\ Throttle(0, BootstrapFloor * Unit,
              [rateLimit EXCEPT !.remaining = Num(PrimedRemaining * Unit)])
  /\ Checked(0, BootstrapFloor * Unit, Num(PrimedRemaining * Unit - Unit),
             [f \in AllFloors |-> 0])
  /\ avail' = Num(PrimedRemaining * Unit)
  /\ UNCHANGED <<nfetch, age, intervalOn, intervalLeft, now, tickSince, reconSince, doomed>>
  /\ UNCHANGED <<direct, stream, detached>>

\* a user's makeRequest(verb, endpoint, data, f), up to the return of throttle
makeRequest(r, f) ==
  /\ pc[0] # "idle"
  /\ pc[r] = "idle"
  /\ \A q \in UserReqs : q < r => pc[q] # "idle"
  /\ now < MaxCallWindows
  /\ Throttle(r, f, rateLimit)
  /\ Checked(r, f, Dec(rateLimit.remaining), grants)
  /\ doomed' = [doomed EXCEPT ![r] =
                  /\ pc[0] \in Rejected
                  /\ \A q \in Reqs : pc[q] \in Settled \cup {"idle"}
                  /\ ~rateLimit.remaining.nan
                  /\ rateLimit.remaining.v <= f + Unit]
  /\ UNCHANGED <<nfetch, age, intervalOn, intervalLeft, now, tickSince, reconSince, avail>>
  /\ UNCHANGED <<direct, stream, detached>>

\* check() taking one more unit at every poll
CheckDecrements(r) ==
  /\ pc[r] = "due"
  /\ ~MicrotaskPending
  /\ rateLimit' = [rateLimit EXCEPT !.remaining = Dec(rateLimit.remaining)]
  /\ pc' = [pc EXCEPT ![r] = CheckPc(rateLimit.remaining, Num(floor[r]), retries[r])]
  /\ retries' = [retries EXCEPT ![r] = CheckRetries(rateLimit.remaining, Num(floor[r]), retries[r])]
  /\ Checked(r, floor[r], rateLimit.remaining, grants)
  /\ UNCHANGED <<floor, nfetch, age, intervalOn, intervalLeft, now>>
  /\ UNCHANGED <<nthrottle, tickSince, reconSince, avail, doomed>>
  /\ UNCHANGED <<direct, stream, detached>>

\* the setTimeout callback of throttle: check()
Check(r) ==
  /\ pc[r] = "due"
  /\ ~MicrotaskPending
  /\ pc' = [pc EXCEPT ![r] = CheckPc(rateLimit.remaining, Num(floor[r]), retries[r])]
  /\ retries' = [retries EXCEPT ![r] = CheckRetries(rateLimit.remaining, Num(floor[r]), retries[r])]
  /\ Checked(r, floor[r], rateLimit.remaining, grants)
  /\ UNCHANGED <<rateLimit, floor, nfetch, age, intervalOn, intervalLeft, now>>
  /\ UNCHANGED <<nthrottle, tickSince, reconSince, avail, doomed>>
  /\ UNCHANGED <<direct, stream, detached>>

\* the refill filling remaining up to limit at once
RefilledToLimit(rl) == rl.limit

\* the refill without its Math.min
RefilledUnclamped(rl) == Add(rl.remaining, Div60(rl.limit))

\* remaining after the setInterval callback of init
Refilled(rl) == MathMin(rl.limit, Add(rl.remaining, Div60(rl.limit)))

\* the setInterval callback of init
Refill ==
  /\ intervalOn
  /\ intervalLeft = 0
  /\ ~MicrotaskPending
  /\ rateLimit' = [rateLimit EXCEPT !.remaining = Refilled(rateLimit)]
  /\ intervalLeft' = WindowsPerRefill
  /\ tickSince' = [r \in Reqs |-> tickSince[r] \/ Waiting(r)]
  /\ avail' = LET added == Sub(Refilled(rateLimit), rateLimit.remaining)
               IN IF added.nan \/ added.v >= 0 THEN Add(avail, added) ELSE avail
  /\ UNCHANGED <<pc, floor, retries, nfetch, age, intervalOn, now>>
  /\ UNCHANGED <<nthrottle, failedChecks, reconSince, grants, doomed, direct, stream, detached>>

\* ---------------------------------------------------------- makeRequest
\* fetch called without waiting for throttle's promise
FetchWithoutWaiting(r) ==
  /\ pc[r] \in {"passed", "wait", "due"}
  /\ pc' = [pc EXCEPT ![r] = "fetch"]
  /\ nfetch' = [nfetch EXCEPT ![r] = @ + 1]
  /\ age' = [age EXCEPT ![r] = 1]
  /\ floor' = [floor EXCEPT ![r] = 0]
  /\ retries' = [retries EXCEPT ![r] = 0]
  /\ failedChecks' = [failedChecks EXCEPT ![r] = 0]
  /\ tickSince' = [tickSince EXCEPT ![r] = FALSE]
  /\ reconSince' = [reconSince EXCEPT ![r] = FALSE]
  /\ doomed' = [doomed EXCEPT ![r] = FALSE]
  /\ UNCHANGED <<rateLimit, intervalOn, intervalLeft, now>>
  /\ UNCHANGED <<nthrottle, avail, grants, direct, stream, detached>>

\* .then(() => fetch(url, requestOptions)); throttle's closure is dropped
Fetch(r) ==
  /\ pc[r] = "passed"
  /\ pc' = [pc EXCEPT ![r] = "fetch"]
  /\ nfetch' = [nfetch EXCEPT ![r] = @ + 1]
  /\ age' = [age EXCEPT ![r] = 1]
  /\ floor' = [floor EXCEPT ![r] = 0]
  /\ retries' = [retries EXCEPT ![r] = 0]
  /\ failedChecks' = [failedChecks EXCEPT ![r] = 0]
  /\ tickSince' = [tickSince EXCEPT ![r] = FALSE]
  /\ reconSince' = [reconSince EXCEPT ![r] = FALSE]
  /\ doomed' = [doomed EXCEPT ![r] = FALSE]
  /\ UNCHANGED <<rateLimit, intervalOn, intervalLeft, now>>
  /\ UNCHANGED <<nthrottle, avail, grants, direct, stream, detached>>

\* fetch rejects: the rejection skips both then(response => ...) callbacks
\* and reaches error => { throw new Error(error) }
FetchFails(r) ==
  /\ pc[r] = "fetch"
  /\ ~MicrotaskPending
  /\ pc' = [pc EXCEPT ![r] = "failed"]
  /\ age' = [age EXCEPT ![r] = 0]
  /\ UNCHANGED <<rateLimit, floor, retries, nfetch, intervalOn, intervalLeft, now>>
  /\ UNCHANGED <<history, direct, stream, detached>>

\* the response handler going to response.json() without the setRateLimit loop
ResponseWithoutReconcile(r, hl, hr, hs) ==
  /\ pc[r] = "fetch"
  /\ ~MicrotaskPending
  /\ rateLimit' = rateLimit
  /\ pc' = [pc EXCEPT ![r] = "body"]
  /\ reconSince' = [q \in Reqs |-> reconSince[q] \/ Waiting(q)]
  /\ avail' = rateLimit'.remaining
  /\ grants' = [f \in AllFloors |-> 0]
  /\ UNCHANGED <<floor, retries, nfetch, age, intervalOn, intervalLeft, now>>
  /\ UNCHANGED <<nthrottle, failedChecks, tickSince, doomed, direct, stream, detached>>

\* .then(response => { for (key in rateLimit) setRateLimit(...); return response.json() })
Response(r, hl, hr, hs) ==
  /\ pc[r] = "fetch"
  /\ ~MicrotaskPending
  /\ rateLimit' = Reconcile(rateLimit, hl, hr, hs)
  /\ pc' = [pc EXCEPT ![r] = "body"]
  /\ reconSince' = [q \in Reqs |-> reconSince[q] \/ Waiting(q)]
  /\ avail' = rateLimit'.remaining
  /\ grants' = [f \in AllFloors |-> 0]
  /\ UNCHANGED <<floor, retries, nfetch, age, intervalOn, intervalLeft, now>>
  /\ UNCHANGED <<nthrottle, failedChecks, tickSince, doomed, direct, stream, detached>>

\* response.json() rejects (the body is not JSON)
JsonFails(r) ==
  /\ pc[r] = "body"
  /\ ~MicrotaskPending
  /\ pc' = [pc EXCEPT ![r] = "failed"]
  /\ age' = [age EXCEPT ![r] = 0]
  /\ UNCHANGED <<rateLimit, floor, retries, nfetch, intervalOn, intervalLeft, now>>
  /\ UNCHANGED <<history, direct, stream, detached>>

\* an 'error' body answered by issuing the HTTP call again
BodyErrorRetries(r) ==
  /\ pc[r] = "body"
  /\ ~MicrotaskPending
  /\ pc' = [pc EXCEPT ![r] = "passed"]
  /\ age' = [age EXCEPT ![r] = 0]
  /\ UNCHANGED <<rateLimit, floor, retries, nfetch, intervalOn, intervalLeft, now>>
  /\ UNCHANGED <<history, direct, stream, detached>>

\* response => { if ('error' in response) throw new Error(...) }
BodyError(r) ==
  /\ pc[r] = "body"
  /\ ~MicrotaskPending
  /\ pc' = [pc EXCEPT ![r] = "apierr"]
  /\ age' = [age EXCEPT ![r] = 0]
  /\ UNCHANGED <<rateLimit, floor, retries, nfetch, intervalOn, intervalLeft, now>>
  /\ UNCHANGED <<history, direct, stream, detached>>

\* the then-callback of init run for whichever request resolves
BodyOkStartsInterval(r) ==
  /\ pc[r] = "body"
  /\ ~MicrotaskPending
  /\ pc' = [pc EXCEPT ![r] = "ok"]
  /\ intervalOn' = TRUE
  /\ intervalLeft' = WindowsPerRefill
  /\ age' = [age EXCEPT ![r] = 0]
  /\ UNCHANGED <<rateLimit, floor, retries, nfetch, now>>
  /\ UNCHANGED <<history, direct, stream, detached>>

\* response => response: makeRequest resolves. For the bootstrap request the
\* then-callback of init runs in the same microtask checkpoint: setInterval.
BodyOk(r) ==
  /\ pc[r] = "body"
  /\ ~MicrotaskPending
  /\ pc' = [pc EXCEPT ![r] = "ok"]
  /\ intervalOn' = (intervalOn \/ r = 0)
  /\ intervalLeft' = IF r = 0 THEN WindowsPerRefill ELSE intervalLeft
  /\ age' = [age EXCEPT ![r] = 0]
  /\ UNCHANGED <<rateLimit, floor, retries, nfetch, now>>
  /\ UNCHANGED <<history, direct, stream, detached>>

\* ------------------------------------------------------------------ time
InFlight(r) == pc[r] \in {"fetch", "body"}

\* 250 ms pass: every armed timeout expires, the interval is a window nearer.
\* Callbacks that are due have run before the next window begins.
Elapse ==
  /\ pc[0] # "idle"
  /\ ~MicrotaskPending
  /\ \A r \in Reqs : pc[r] # "due"
  /\ ~(intervalOn /\ intervalLeft = 0)
  /\ \A r \in Reqs : InFlight(r) => age[r] < MaxLatency
  /\ pc' = [r \in Reqs |-> IF pc[r] = "wait" THEN "due" ELSE pc[r]]
  /\ age' = [r \in Reqs |-> IF InFlight(r) THEN age[r] + 1 ELSE age[r]]
  /\ intervalLeft' = IF intervalOn THEN intervalLeft - 1 ELSE intervalLeft
  /\ now' = IF now < MaxCallWindows THEN now + 1 ELSE now
  /\ UNCHANGED <<rateLimit, floor, retries, nfetch, intervalOn>>
  /\ UNCHANGED <<history, direct, stream, detached>>

Next ==
  \/ init
  \/ \E r \in UserReqs, f \in Floors : makeRequest(r, f)
  \/ \E r \in Reqs : Check(r)
  \/ Refill
  \/ \E r \in Reqs : Fetch(r)
  \/ \E r \in Reqs : FetchFails(r)
  \/ \E r \in Reqs, hl \in LimitHeaders, hr \in RemainingHeaders, hs \in ResetHeaders :
       Response(r, hl, hr, hs)
  \/ \E r \in Reqs : JsonFails(r)
  \/ \E r \in Reqs : BodyError(r)
  \/ \E r \in Reqs : BodyOk(r)
  \/ Elapse

\* the limiter and the request pipeline
Spec == Init /\ [][Next]_vars

\* one more request, made once the bootstrap request has failed; it asks for
\* the lowest floor a caller of the library uses (init's own, line 29), the
\* one that can still pass when a request with the default floor waits
NextRecovery ==
  \/ Next
  \/ pc[0] \in Rejected /\ makeRequest(LateReq, BootstrapFloor * Unit)

\* the limiter and the request pipeline, with a request more after a failed
\* bootstrap request
SpecRecovery == Init /\ [][NextRecovery]_vars

\* --------------------------------------------------------- setRateLimit
\* a direct call of the public method setRateLimit(key, value), value a number
HeaderValues ==
  {HNaN, HInf, HNegInf, HExp(1), HExp(7)} \cup
  {HFin(v) : v \in {-5 * Unit, -30, 0, 30, Unit - 1, Unit, Unit + 1, 2 * Unit + 30,
                    DefaultOther * Unit, DefaultLimit * Unit, 59 * Unit + 59}}

setRateLimit(key, value) ==
  /\ pc[0] # "idle"
  /\ rateLimit' = SetRateLimit(rateLimit, key, value)
  /\ lastKey' = key
  /\ lastValue' = value
  /\ avail' = IF key = "remaining" THEN rateLimit'.remaining ELSE avail
  /\ grants' = IF key = "remaining" THEN [f \in AllFloors |-> 0] ELSE grants
  /\ UNCHANGED <<pc, floor, retries, nfetch, age, intervalOn, intervalLeft, now>>
  /\ UNCHANGED <<nthrottle, failedChecks, tickSince, reconSince, doomed, stream, detached>>

NextSet ==
  \/ init
  \/ \E key \in Keys, value \in HeaderValues : setRateLimit(key, value)

\* setRateLimit alone, on every key and value
SpecSet == Init /\ [][NextSet]_vars

\* ------------------------------------- throttle calls and refill ticks
\* direct calls of throttle and refill ticks counted within one stretch
MaxCalls == 3
MaxTicks == 3

\* a stretch begins at the first throttle call or refill tick
Started == nCalls + nTicks > 0
SegmentBefore == IF Started THEN before ELSE rateLimit.remaining

\* a direct call of the public method throttle(f): remaining--, then the
\* first check. The promise is not followed: its later checks read
\* rateLimit and write nothing.
throttle(f) ==
  /\ pc[0] # "idle"
  /\ nCalls < MaxCalls
  /\ rateLimit' = [rateLimit EXCEPT !.remaining = Dec(rateLimit.remaining)]
  /\ throttled' = CheckPc(Dec(rateLimit.remaining), Num(f), Retries)
  /\ before' = SegmentBefore
  /\ nCalls' = nCalls + 1
  /\ UNCHANGED <<pc, floor, retries, nfetch, age, intervalOn, intervalLeft, now>>
  /\ UNCHANGED <<nTicks, history, direct, stream, request>>

\* the setInterval callback of init, whenever its second is over
refillTick ==
  /\ intervalOn
  /\ ~MicrotaskPending
  /\ nTicks < MaxTicks
  /\ rateLimit' = [rateLimit EXCEPT !.remaining = Refilled(rateLimit)]
  /\ before' = SegmentBefore
  /\ nTicks' = nTicks + 1
  /\ UNCHANGED <<pc, floor, retries, nfetch, age, intervalOn, intervalLeft, now>>
  /\ UNCHANGED <<nCalls, throttled, history, direct, stream, request>>

\* the bootstrap request, then throttle calls and refill ticks only: no
\* response is reconciled once the first of them has run
NextTicks ==
  \/ init
  \/ Fetch(0)
  \/ (~Started /\ \E hl \in LimitHeaders, hr \in RemainingHeaders, hs \in ResetHeaders :
                    Response(0, hl, hr, hs))
  \/ BodyOk(0)
  \/ \E f \in Floors : throttle(f)
  \/ refillTick

SpecTicks == Init /\ [][NextTicks]_vars

\* ------------------------------------------ makeRequest: the request
\* Strings are sequences of pieces; + is \o.
\* const apiRoot = '/api/v1/'
ApiRoot == "/api/v1/"
\* options.testnet ? 'https://testnet.bitmex.com' : 'https://www.bitmex.com'
ApiBase(testnet) == IF testnet THEN "https://testnet.bitmex.com" ELSE "https://www.bitmex.com"
\* new Date().getTime() + (60 * 1000), as one piece
Expires == "<expires>"

\* the arguments verb, endpoint and data; data is a flat object, its members
\* in insertion order
Verbs == {"GET", "POST", "PUT", "DELETE"}
Endpoints == {"", "order"}
Members ==
  {[k |-> k, v |-> v] : k \in {"symbol", "count"},
                        v \in {[t |-> "str", s |-> "XBTUSD"], [t |-> "num", s |-> "1"]}}
Payloads ==
  {<<>>} \cup {<<m>> : m \in Members}
         \cup {p \in Members \X Members : p[1].k # p[2].k}

RECURSIVE QsStringify(_)
\* qs.stringify(data): key=value joined by &
QsStringify(data) ==
  IF data = <<>> THEN <<>>
  ELSE <<data[1].k, "=", data[1].v.s>>
         \o (IF Len(data) = 1 THEN <<>> ELSE <<"&">> \o QsStringify(Tail(data)))

RECURSIVE JsonMembers(_)
\* "key":value joined by commas; a string value is quoted
JsonMembers(data) ==
  IF data = <<>> THEN <<>>
  ELSE <<"\"", data[1].k, "\"", ":">>
         \o (IF data[1].v.t = "str" THEN <<"\"", data[1].v.s, "\"">> ELSE <<data[1].v.s>>)
         \o (IF Len(data) = 1 THEN <<>> ELSE <<",">> \o JsonMembers(Tail(data)))
\* JSON.stringify(data)
JsonStringify(data) == <<"{">> \o JsonMembers(data) \o <<"}">>

\* the body serialized for every verb, GET too
PostBodyAlways(verb, data) == JsonStringify(data)

\* let query = '', postBody = ''; if (verb === 'GET') ... else ...
Query(verb, data) == IF verb = "GET" THEN <<"?">> \o QsStringify(data) ELSE <<>>
PostBody(verb, data) == IF verb = "GET" THEN <<>> ELSE JsonStringify(data)

\* .update(verb + apiRoot + endpoint + query + expires + postBody)
SignatureInput(verb, endpoint, data) ==
  <<verb, ApiRoot, endpoint>> \o Query(verb, data) \o <<Expires>> \o PostBody(verb, data)
\* crypto.createHmac('sha256', secret).update(input).digest('hex'), kept symbolic
Hmac(secret, input) == [secret |-> secret, input |-> input]

\* url and requestOptions as makeRequest hands them to fetch
BuiltRequest(verb, endpoint, data, keys, testnet) ==
  [verb |-> verb, endpoint |-> endpoint, data |-> data,
   url |-> <<ApiBase(testnet), ApiRoot, endpoint>> \o Query(verb, data),
   method |-> verb,
   hasBody |-> verb # "GET",
   body |-> IF verb # "GET" THEN PostBody(verb, data) ELSE <<>>,
   signed |-> keys,
   \* without keys no api-signature header is set: nothing is signed
   signature |-> IF keys THEN Hmac("apiKeySecret", SignatureInput(verb, endpoint, data))
                 ELSE Hmac("", <<>>)]

\* makeRequest(verb, endpoint, data) up to its call of throttle; keys: the
\* options hold apiKeyID and apiKeySecret
buildRequest(verb, endpoint, data, keys, testnet) ==
  /\ pc[0] # "idle"
  /\ built' = BuiltRequest(verb, endpoint, data, keys, testnet)
  /\ UNCHANGED <<limiter, history, direct, stream, segment>>

NextRequest ==
  \/ init
  \/ \E verb \in Verbs, endpoint \in Endpoints, data \in Payloads, keys, testnet \in BOOLEAN :
       buildRequest(verb, endpoint, data, keys, testnet)

\* the requests makeRequest builds, for every verb and payload
SpecRequest == Init /\ [][NextRequest]_vars

\* -------------------------------------------------------- monitorStream
\* how many snapshots the transport delivers
MaxSnapshots == 3

\* data.indexOf(x): the first occurrence where the last is meant
IndexOf(data, x) ==
  IF \E i \in DOMAIN data : data[i] = x
  THEN (CHOOSE i \in DOMAIN data : data[i] = x /\ \A j \in DOMAIN data : data[j] = x => i <= j) - 1
  ELSE -1

\* data.lastIndexOf(x), with JavaScript's indices (0-based, -1 when absent)
LastIndexOf(data, x) ==
  IF \E i \in DOMAIN data : data[i] = x
  THEN (CHOOSE i \in DOMAIN data : data[i] = x /\ \A j \in DOMAIN data : data[j] = x => j <= i) - 1
  ELSE -1

\* the loop starting at the cursor itself (the + 1 forgotten)
FirstDeliveredAtCursor(data, last) ==
  IF LastIndexOf(data, last) < 0 THEN 0 ELSE LastIndexOf(data, last)

\* for (let i = data.lastIndexOf(lastItem) + 1; ...): the first index delivered
FirstDelivered(data, last) == LastIndexOf(data, last) + 1

\* every snapshot delivered whole, whatever the cursor
DeliveredWhole(data, last) == data

\* the callback's arguments for one non-empty snapshot of an item table
Delivered(data, last) == SubSeq(data, FirstDelivered(data, last) + 1, Len(data))

RECURSIVE AppendNew(_, _)
\* log followed by the items of data not yet in it, in data's order
AppendNew(log, data) ==
  IF data = <<>> THEN log
  ELSE AppendNew(IF \E i \in DOMAIN log : log[i] = Head(data) THEN log ELSE Append(log, Head(data)),
                 Tail(data))

\* data continues prev as a window of an append-only log: a (possibly empty)
\* tail of prev, then items that never appeared before
Continues(prev, data, log) ==
  \E k \in 0..Len(prev) :
    /\ Len(data) >= Len(prev) - k
    /\ SubSeq(data, 1, Len(prev) - k) = SubSeq(prev, k + 1, Len(prev))
    /\ \A i \in (Len(prev) - k + 1)..Len(data) : \A j \in DOMAIN log : log[j] # data[i]

\* monitorStream(symbol, tableName, callback): addStream registers the handler
monitorStream(t) ==
  /\ tableName = ""
  /\ tableName' = t
  /\ lastItem' = Undefined
  /\ UNCHANGED <<calls, nSnaps, arrivals, prevSnap, windowed, limiter, history, direct, detached>>

\* the handler forgetting the cursor on an empty snapshot
onDataEmptyResets(data) ==
  /\ tableName # ""
  /\ nSnaps < MaxSnapshots
  /\ nSnaps' = nSnaps + 1
  /\ arrivals' = AppendNew(arrivals, data)
  /\ prevSnap' = data
  /\ windowed' = (windowed /\ Continues(prevSnap, data, arrivals))
  /\ IF Len(data) = 0
     THEN calls' = calls /\ lastItem' = Undefined
     ELSE /\ calls' = IF tableName = "orderBookL2"
                      THEN Append(calls, NoArgument)
                      ELSE calls \o Delivered(data, lastItem)
          /\ lastItem' = data[Len(data)]
  /\ UNCHANGED <<tableName, limiter, history, direct, detached>>

\* the handler treating orderBookL2 like every other table
onDataPerItem(data) ==
  /\ tableName # ""
  /\ nSnaps < MaxSnapshots
  /\ nSnaps' = nSnaps + 1
  /\ arrivals' = AppendNew(arrivals, data)
  /\ prevSnap' = data
  /\ windowed' = (windowed /\ Continues(prevSnap, data, arrivals))
  /\ IF Len(data) = 0
     THEN UNCHANGED <<calls, lastItem>>
     ELSE /\ calls' = calls \o Delivered(data, lastItem)
          /\ lastItem' = data[Len(data)]
  /\ UNCHANGED <<tableName, limiter, history, direct, detached>>

\* the handler given to addStream, called with one snapshot
onData(data) ==
  /\ tableName # ""
  /\ nSnaps < MaxSnapshots
  /\ nSnaps' = nSnaps + 1
  /\ arrivals' = AppendNew(arrivals, data)
  /\ prevSnap' = data
  /\ windowed' = (windowed /\ Continues(prevSnap, data, arrivals))
  /\ IF Len(data) = 0
     THEN UNCHANGED <<calls, lastItem>>
     ELSE /\ calls' = IF tableName = "orderBookL2"
                      THEN Append(calls, NoArgument)
                      ELSE calls \o Delivered(data, lastItem)
          /\ lastItem' = data[Len(data)]
  /\ UNCHANGED <<tableName, limiter, history, direct, detached>>

NextStream ==
  \/ \E t \in Tables : monitorStream(t)
  \/ \E data \in Snapshots : onData(data)

\* one subscription and the snapshots delivered to it
SpecStream == Init /\ [][NextStream]_vars

\* snapshots in which an item may occur more than once, and the snapshots
\* [1,2], [1,2,3], [2,3,4]
RepeatingSnapshots == UNION {[1..n -> {1, 2}] : n \in 0..3}
CursorSnapshots == RepeatingSnapshots \cup {<<1, 2>>, <<1, 2, 3>>, <<2, 3, 4>>}

NextCursor ==
  \/ \E t \in Tables : monitorStream(t)
  \/ \E data \in CursorSnapshots : onData(data)

\* one subscription and snapshots of any content
SpecCursor == Init /\ [][NextCursor]_vars

\* ============================================================ properties
ItemTable == tableName # "" /\ tableName # "orderBookL2"
ThrottleResolved(r) == pc[r] \in {"passed", "fetch", "body", "ok", "failed", "apierr"}

RECURSIVE SumTo(_, _)
SumTo(f, n) == IF n < 0 THEN 0 ELSE f[n] + SumTo(f, n - 1)
\* throttle calls made so far
ThrottleCalls == SumTo(nthrottle, LateReq)

\* remaining at the moment throttle is called for request r
RemainingAtCall(r) == IF r = 0 THEN Num(PrimedRemaining * Unit) ELSE rateLimit.remaining

\* a response has just been reconciled
Reconciled == \E r \in Reqs : pc[r] = "fetch" /\ pc'[r] = "body"

\* ---- C1 (as stated): for an item table and any sequence of snapshots, the
\* callback receives every item that appeared in a snapshot exactly once, in
\* the order of arrival.
C1_ExactlyOnceAnySnapshots == ItemTable => calls = arrivals

\* ---- C1 (amended): the same, for snapshots that each continue the one
\* before as a window of one append-only log of pairwise different items.
C1_ExactlyOnceOnLogWindows == (ItemTable /\ windowed) => calls = arrivals

\* three snapshots of a growing, front-truncated log: [1], [1,2], [2,3]
C1_Witness ==
  /\ ItemTable /\ windowed /\ nSnaps = 3
  /\ prevSnap = <<2, 3>> /\ calls = <<1, 2, 3>> /\ lastItem = 3

\* ---- C2 (as stated): in every reachable state 0 <= remaining <= limit.
C2_RemainingWithinZeroAndLimit ==
  /\ ~rateLimit.remaining.nan /\ ~rateLimit.limit.nan
  /\ 0 <= rateLimit.remaining.v
  /\ rateLimit.remaining.v <= rateLimit.limit.v

\* ---- C2 (amended): once init has run, remaining is NaN or at least 1 minus
\* the number of throttle calls made (so it does go below 0), and right after
\* every refill tick remaining is NaN or at most limit.
C2_RemainingBounds ==
  /\ [](pc[0] # "idle" =>
          \/ rateLimit.remaining.nan
          \/ rateLimit.remaining.v >= Unit - Unit * ThrottleCalls)
  /\ [][Refill => (rateLimit'.remaining.nan
                   \/ rateLimit'.remaining.v <= rateLimit'.limit.v)]_vars

\* a second request called while the bootstrap request is in flight: remaining is -1
C2_Witness ==
  /\ rateLimit.remaining = Num(-Unit)
  /\ ThrottleCalls = 2
  /\ \E r \in UserReqs : Waiting(r)

\* ---- C3: the requests with floor f that got past throttle since remaining
\* was last set (by init or by a response) never outnumber the budget they
\* had: that value plus the refill added since, minus f.
C3_NeverOverspent ==
  \A f \in AllFloors :
    grants[f] > 0 => (avail.nan \/ grants[f] * Unit <= avail.v - f)

\* ---- C4: a throttle call rejects with 'No more retries' exactly when 400
\* checks, one per 250 ms window, did not find remaining > floor; it resolves
\* at the first check that does; it settles once, and a rejected call never
\* resolves.
C4_RejectsIffRetriesExhausted ==
  /\ [](\A r \in Reqs :
          /\ pc[r] = "noretry" => failedChecks[r] = Retries
          /\ (Waiting(r) \/ pc[r] = "passed") => failedChecks[r] < Retries
          /\ Waiting(r) => failedChecks[r] >= 1)
  /\ [][\A r \in Reqs :
          /\ pc[r] = "noretry" => pc'[r] = "noretry"
          /\ ThrottleResolved(r) => ThrottleResolved(r)'
          /\ (pc[r] = "due" /\ pc'[r] # "due") =>
               /\ pc'[r] = "passed" <=> Gt(rateLimit.remaining, Num(floor[r]))
               /\ pc'[r] = "passed" => failedChecks'[r] = failedChecks[r]
               /\ pc'[r] # "passed" => failedChecks'[r] = failedChecks[r] + 1
          /\ failedChecks'[r] > failedChecks[r] => pc[r] \in {"idle", "due"}
          /\ (pc[r] # "due" /\ pc'[r] = "due") => (pc[r] = "wait" /\ Elapse)]_vars

\* a call rejected after its 400th failed check
C4_Witness == \E r \in UserReqs : pc[r] = "noretry" /\ failedChecks[r] = Retries

\* ---- C5: throttle(floor) resolves on its first, synchronous check exactly
\* when remaining - 1 > floor for remaining as it is at the call.
C5_ImmediateIffAboveFloor ==
  [][\A r \in Reqs :
       (pc[r] = "idle" /\ pc'[r] # "idle") =>
         (pc'[r] = "passed" <=> Gt(Dec(RemainingAtCall(r)), Num(floor'[r])))]_vars

\* a user's request that got past throttle without a failed check
C5_Witness == \E r \in UserReqs : pc[r] = "passed" /\ failedChecks[r] = 0

\* ---- C6 (as stated): a throttle call that did not resolve at once does not
\* resolve before a refill tick has run since the call.
C6_NoResolveBeforeRefill ==
  [][\A r \in Reqs : (pc[r] = "due" /\ pc'[r] = "passed") => tickSince[r]]_vars

\* ---- C6 (amended): a throttle call that did not resolve at once does not
\* resolve before a refill tick has run, or a response has been reconciled,
\* since the call.
C6_NoResolveBeforeRefillOrReconcile ==
  [][\A r \in Reqs :
       (pc[r] = "due" /\ pc'[r] = "passed") => (tickSince[r] \/ reconSince[r])]_vars

\* a call that waited and resolved after a reconciliation, no refill in between
C6_Witness ==
  \E r \in UserReqs :
    pc[r] = "passed" /\ failedChecks[r] >= 1 /\ reconSince[r] /\ ~tickSince[r]

\* ---- C7: the HTTP call of a request is issued only once its throttle call
\* has resolved, and never for a request whose throttle call rejected.
C7_FetchOnlyAfterThrottle ==
  /\ [][\A r \in Reqs : nfetch'[r] # nfetch[r] => pc[r] = "passed"]_vars
  /\ [](\A r \in Reqs : (Waiting(r) \/ pc[r] \in {"idle", "passed", "noretry"}) => nfetch[r] = 0)

\* a request that waited in throttle and then had its HTTP call issued
C7_Witness == \E r \in UserReqs : pc[r] = "fetch" /\ nfetch[r] = 1 /\ now > 0

\* ---- C8: one makeRequest makes at most one throttle call and one HTTP
\* call; once it is rejected (retries exhausted, transport or parse failure,
\* 'error' body) it stays rejected and makes neither again.
C8_NoRetry ==
  /\ [](\A r \in Reqs : nfetch[r] <= 1 /\ nthrottle[r] <= 1)
  /\ [][\A r \in Reqs :
          /\ pc[r] \in Rejected =>
               (pc'[r] = pc[r] /\ nfetch'[r] = nfetch[r] /\ nthrottle'[r] = nthrottle[r])
          /\ (InFlight(r) /\ ~InFlight(r)') => pc'[r] \in {"ok", "failed", "apierr"}]_vars

\* a user's request rejected for an 'error' body after its one HTTP call
C8_Witness == \E r \in UserReqs : pc[r] = "apierr" /\ nfetch[r] = 1 /\ nthrottle[r] = 1

\* ---- C9: right after a response is reconciled, 0 <= remaining <= limit,
\* whatever the headers.
C9_ReconciledRemainingWithinLimit ==
  [][Reconciled =>
       /\ ~rateLimit'.remaining.nan /\ ~rateLimit'.limit.nan
       /\ 0 <= rateLimit'.remaining.v
       /\ rateLimit'.remaining.v <= rateLimit'.limit.v]_vars

\* the number setRateLimit holds, as a number of the kind it was given
AsValue(x) == IF x.nan THEN HNaN ELSE HFin(x.v)
\* the integer part of a number: of a finite one its truncation; a number
\* from 1e21 on and Infinity have no fractional part
IntegerPart(value) ==
  IF value.k = "fin"
  THEN HFin(IF value.v >= 0 THEN (value.v \div Unit) * Unit
            ELSE -(((-value.v) \div Unit) * Unit))
  ELSE value
\* a number >= 1
AtLeastOne(value) == value.k \in {"exp", "inf"} \/ (value.k = "fin" /\ value.v >= Unit)

\* ---- C10: setRateLimit(key, value) stores the integer part of a number
\* value >= 1 and otherwise the default, 30 for 'limit' and 10 for the others.
C10_StoresIntegerPartOrDefault ==
  lastKey # "" =>
    AsValue(rateLimit[lastKey]) =
      IF AtLeastOne(lastValue) THEN IntegerPart(lastValue)
      ELSE HInt(IF lastKey = "limit" THEN DefaultLimit ELSE DefaultOther)

Handled == nSnaps' = nSnaps + 1 /\ prevSnap' # <<>>
\* the positions of x in data (from 1), and the greatest of a set of them
Positions(data, x) == {i \in DOMAIN data : data[i] = x}
Greatest(ps) == CHOOSE i \in ps : \A j \in ps : j <= i

\* ---- C12: on a non-empty snapshot of an item table, the items after the
\* last occurrence of the cursor are delivered in order, the whole snapshot
\* if the cursor does not occur; the cursor becomes the snapshot's last
\* item. Snapshots [1,2], [1,2,3], [2,3,4] deliver 1,2 then 3 then 4.
C12_DeliversAfterLastOccurrence ==
  /\ [][(ItemTable /\ Handled) =>
          /\ calls' = calls \o
               (IF Positions(prevSnap', lastItem) = {} THEN prevSnap'
                ELSE SubSeq(prevSnap', Greatest(Positions(prevSnap', lastItem)) + 1,
                            Len(prevSnap')))
          /\ lastItem' = prevSnap'[Len(prevSnap')]]_vars
  /\ [](/\ Delivered(<<1, 2>>, Undefined) = <<1, 2>>
        /\ Delivered(<<1, 2, 3>>, 2) = <<3>>
        /\ Delivered(<<2, 3, 4>>, 3) = <<4>>)

\* the three snapshots of the example have been handled
C12_Witness ==
  /\ ItemTable /\ nSnaps = 3 /\ prevSnap = <<2, 3, 4>>
  /\ calls = <<1, 2, 3, 4>> /\ lastItem = 4

\* ---- C13: an empty snapshot, whatever the table, invokes the callback not
\* once and leaves the cursor as it was, so the snapshots after it are
\* handled as if it had not arrived.
C13_EmptySnapshotChangesNothing ==
  [][(nSnaps' = nSnaps + 1 /\ prevSnap' = <<>>) =>
       /\ calls' = calls /\ lastItem' = lastItem /\ tableName' = tableName
       /\ \A data \in Snapshots : Delivered(data, lastItem') = Delivered(data, lastItem)]_vars

\* an empty snapshot arrived after 1 and 2 were delivered; the cursor is still 2
C13_Witness ==
  /\ ItemTable /\ nSnaps = 2 /\ prevSnap = <<>>
  /\ calls = <<1, 2>> /\ lastItem = 2

\* ---- C14: for orderBookL2 every non-empty snapshot invokes the callback
\* exactly once, without an argument, and no item is ever passed to it.
C14_OrderBookOneCallPerSnapshot ==
  /\ [][(tableName = "orderBookL2" /\ Handled) => calls' = Append(calls, NoArgument)]_vars
  /\ [](tableName = "orderBookL2" => \A i \in DOMAIN calls : calls[i] = NoArgument)

\* three snapshots, one of them empty and the latest of two items or more:
\* two invocations
C14_Witness ==
  /\ tableName = "orderBookL2" /\ nSnaps = 3 /\ Len(prevSnap) >= 2
  /\ calls = <<NoArgument, NoArgument>>

\* no response has been reconciled yet: reset is still the constructor's 0
\* (setRateLimit stores NaN or a number from 1 on)
NoFeedbackYet == rateLimit.reset = Num(0)

\* ---- C15: the bootstrap request of init passes throttle on its first
\* check; until a response has been reconciled no refill exists and every
\* other makeRequest (floor >= -1) is held in throttle, waiting or rejected.
C15_OnlyBootstrapPassesBeforeFeedback ==
  /\ [][init => (pc'[0] = "passed" /\ failedChecks'[0] = 0)]_vars
  /\ [](NoFeedbackYet =>
          /\ ~intervalOn
          /\ \A r \in UserReqs : pc[r] # "idle" => (Waiting(r) \/ pc[r] = "noretry"))
  /\ [][\A r \in UserReqs :
          (pc[r] # "passed" /\ pc'[r] = "passed") => ~NoFeedbackYet]_vars

\* a request with floor -1 still held after two checks, no response so far
C15_Witness ==
  \E r \in UserReqs :
    /\ Waiting(r) /\ floor[r] = BootstrapFloor * Unit /\ failedChecks[r] >= 2
    /\ NoFeedbackYet

\* the pieces of a url after its base, root and endpoint
UrlQuery(url) == SubSeq(url, 4, Len(url))
\* where the expiry stands in a signature input
ExpiresAt(input) == CHOOSE i \in DOMAIN input : input[i] = Expires
\* the pieces of a signature input between the endpoint and the expiry, and
\* after the expiry
SignedQuery(input) == SubSeq(input, 4, ExpiresAt(input) - 1)
SignedBody(input) == SubSeq(input, ExpiresAt(input) + 1, Len(input))

\* ---- C16: a GET request carries the payload in the query string only, has
\* no body, and signs an empty body; every other verb has an empty query
\* string and the JSON of the payload as body, the same string that is
\* signed as body.
C16_PayloadInQueryOrBody ==
  built.verb # "none" =>
    /\ built.method = built.verb
    /\ IF built.verb = "GET"
       THEN /\ UrlQuery(built.url) = <<"?">> \o QsStringify(built.data)
            /\ ~built.hasBody
            /\ built.signed =>
                 /\ SignedBody(built.signature.input) = <<>>
                 /\ SignedQuery(built.signature.input) = UrlQuery(built.url)
       ELSE /\ UrlQuery(built.url) = <<>>
            /\ built.hasBody
            /\ built.body = JsonStringify(built.data)
            /\ built.signed =>
                 /\ SignedBody(built.signature.input) = built.body
                 /\ SignedQuery(built.signature.input) = <<>>

\* a signed GET with two members in its payload
C16_Witness ==
  /\ built.verb = "GET" /\ built.signed /\ Len(built.data) = 2
  /\ Len(UrlQuery(built.url)) = 8

\* throttle has just been called for request r
Called(r) == nthrottle'[r] # nthrottle[r]

\* ---- C17: a throttle call takes exactly 1 from remaining, at the call and
\* before its first check, once for the request whatever becomes of it;
\* nothing but a throttle call, a reconciliation or a refill tick changes
\* remaining, so no poll or rejection takes a unit or gives one back.
C17_OneUnitPerAttempt ==
  /\ [][\A r \in Reqs :
          Called(r) =>
            /\ nthrottle'[r] = nthrottle[r] + 1
            /\ rateLimit'.remaining = Dec(RemainingAtCall(r))
            /\ ~RemainingAtCall(r).nan =>
                 rateLimit'.remaining.v = RemainingAtCall(r).v - Unit
            /\ pc'[r] = CheckPc(rateLimit'.remaining, Num(floor'[r]), Retries)]_vars
  /\ [][rateLimit'.remaining # rateLimit.remaining =>
          \/ \E r \in Reqs : Called(r)
          \/ Reconciled
          \/ Refill]_vars
  /\ [](\A r \in Reqs : nthrottle[r] <= 1 /\ (pc[r] # "idle" => nthrottle[r] = 1))

\* the bootstrap request failed with no response; a user's request was
\* rejected after its 400 polls: the two units are still taken
C17_Witness ==
  /\ NoFeedbackYet /\ rateLimit.remaining = Num(-Unit)
  /\ \E r \in UserReqs : pc[r] = "noretry" /\ nthrottle[r] = 1

\* ---- C18: when the response of a request arrives, limit, remaining and
\* reset are set from its headers before the body is read, and what the body
\* turns out to be (fine, an 'error', not JSON) leaves them as set; a failed
\* HTTP call changes no field, nor does issuing the call.
C18_ReconciledBeforeBody ==
  [][\A r \in Reqs :
       /\ (pc[r] = "fetch" /\ pc'[r] = "body") =>
            \E hl \in LimitHeaders, hr \in RemainingHeaders, hs \in ResetHeaders :
              rateLimit' = Reconcile(rateLimit, hl, hr, hs)
       /\ (pc[r] = "body" /\ pc'[r] # "body") =>
            (pc'[r] \in {"ok", "apierr", "failed"} /\ rateLimit' = rateLimit)
       /\ (pc[r] = "fetch" /\ pc'[r] # "fetch") =>
            (pc'[r] \in {"body", "failed"} /\ (pc'[r] = "failed" => rateLimit' = rateLimit))
       /\ (pc[r] = "passed" /\ pc'[r] # "passed") =>
            (pc'[r] = "fetch" /\ rateLimit' = rateLimit)
       /\ (pc'[r] \in {"ok", "apierr"} /\ pc[r] # pc'[r]) => pc[r] = "body"]_vars

\* the bootstrap request ended in an 'error' body; the limit of its headers
\* is in force all the same
C18_Witness ==
  /\ pc[0] = "apierr" /\ ~NoFeedbackYet
  /\ rateLimit.limit = Num(5 * Unit)

\* the bootstrap request has failed
BootstrapFailed == pc[0] \in Rejected

\* ---- C19 (as stated): the refill is started only by the success of the
\* bootstrap request, once; after its failure no refill runs and remaining
\* rises by reconciliation only; and a makeRequest made when remaining <=
\* floor + 1 with no request under way never gets past throttle.
C19_NeverRecovers ==
  /\ intervalOn => pc[0] = "ok"
  /\ BootstrapFailed => ~intervalOn
  /\ \A r \in Reqs : doomed[r] => (Waiting(r) \/ pc[r] = "noretry")

\* ---- C19 (amended): the same, except that such a makeRequest gets past
\* throttle only after a response to another request has been reconciled
\* since its call.
C19_RecoversByReconciliationOnly ==
  /\ [](intervalOn => pc[0] = "ok")
  /\ [](BootstrapFailed => ~intervalOn)
  /\ [][/\ intervalOn' # intervalOn => (pc[0] = "body" /\ pc'[0] = "ok" /\ intervalOn')
        /\ BootstrapFailed => (pc'[0] = pc[0] /\ ~Refill)
        /\ (BootstrapFailed /\ rateLimit'.remaining # rateLimit.remaining) =>
             (Reconciled \/ rateLimit'.remaining = Dec(rateLimit.remaining))
        /\ \A r \in Reqs :
             (doomed[r] /\ pc[r] # "passed" /\ pc'[r] = "passed") => reconSince[r]]_vars
  /\ [](\A r \in Reqs :
          (doomed[r] /\ ~reconSince[r]) => (Waiting(r) \/ pc[r] = "noretry"))

\* a request made after the failure with remaining <= floor + 1 and rejected
\* after its 400 polls, no response having come
C19_Witness ==
  /\ BootstrapFailed
  /\ \E r \in Reqs : doomed[r] /\ pc[r] = "noretry" /\ ~reconSince[r]

\* where x stands in log
PositionIn(log, x) == CHOOSE p \in DOMAIN log : log[p] = x

\* ---- C20: when the items are pairwise different and every snapshot is a
\* window of one append-only log, its start and end never moving back, then
\* for an item table no item is delivered twice, the deliveries follow the
\* order of the log, and every item of every snapshot is delivered.
C20_LogWindowsOnceInLogOrder ==
  (ItemTable /\ windowed) =>
    /\ Injective(calls)
    /\ \A i \in DOMAIN calls : \E p \in DOMAIN arrivals : arrivals[p] = calls[i]
    /\ \A i, j \in DOMAIN calls :
         i < j => PositionIn(arrivals, calls[i]) < PositionIn(arrivals, calls[j])
    /\ \A p \in DOMAIN arrivals : \E i \in DOMAIN calls : calls[i] = arrivals[p]

\* windows [1,2], then an empty one, then [3] past the cursor
C20_Witness ==
  /\ ItemTable /\ windowed /\ nSnaps = 3
  /\ prevSnap = <<3>> /\ calls = <<1, 2, 3>> /\ arrivals = <<1, 2, 3>>

====
